---- MODULE Spec2Model ----
(***************************************************************************)
(* A model of node_edge's NodeEngine (src/src/node_edge/_engine.py): the   *)
(* host threads calling eval(), await_(), send_message(), start() and      *)
(* stop(), the events queue, the dispatcher thread (_run_events), the      *)
(* reader thread (_run_listen_remote), the socket to the child and the     *)
(* child as a responder on the wire protocol.                              *)
(***************************************************************************)
EXTENDS Integers, Sequences, FiniteSets, TLC

\* ------------------------------------------------------------------ bounds

\* Host threads calling into the engine.
NThreads == 2
\* Calls (eval, await_, send_message, stop) the host threads make, and lines the
\* child writes that answer no request, in all.
MaxCalls == 3
\* Addresses an Eval/Await object can be allocated at (the values of id()).
NAddr == 3
\* Capacity of the events queue, scaled down from Queue(1000).
QueueCap == 2
\* Responses the child sends a second time (specification SpecDup only).
MaxReplay == 1
\* Length of the byte stream the reader receives (specification SpecRead only).
MaxStream == 5
\* Keys of a package manifest (specifications SpecSig and SpecEnv only).
MaxKeys == 2
\* Runs of the installer (specification SpecEnv only).
MaxInstalls == 2

Threads == 1..NThreads
Addr == 1..NAddr

VARIABLES
    listen_socket,   \* self._listen_socket: "None" | "open" | "closed"
    remote_conn,     \* self._remote_conn:   "None" | "open" | "closed"
    remote_proc,     \* self._remote_proc (the child): "None" | "running" | "exited"
    remote_thread,   \* self._remote_thread: "None" | "accepting" | "reading" | "exited"
    events_thread,   \* self._events_thread: "None" | "created" | "running" | "finished" | "crashed"
    events,          \* self._events: the queue, a sequence of event records
    pending,         \* self._pending: event_id -> address of the waiting Eval/Await
    evt,             \* _run_events' local evt: address of the Eval/Await it holds, or 0
    pending_event,   \* _run_events' local pending_event: address it holds, or 0
    msg,             \* per host thread: the Eval/Await object of its call in progress
    pc,              \* per host thread: "idle" | "waiting" | "stop_put"
    ret,             \* per host thread: how its last call ended
    calls,           \* calls the host threads have made so far
    wire,            \* what was written to the socket, in order
    netIn,           \* lines the child wrote that the reader has not read yet
    answered,        \* indices of wire the child has answered
    replays,         \* responses the child has sent a second time
    nextSeq,         \* history: number of requests put on the queue so far
    stopped,         \* history: a call of stop() has returned
    resolved,        \* history: how many responses resolved a waiter, per event_id
    dropped,         \* history: ids of the pointers the host held and holds no more
    junk,            \* lines the child has written that answer no request
    printed,         \* what print(evt) has written to stdout, in order
    stream,          \* the bytes the peer writes to the connection, in all
    chunks,          \* history: what each recv() of the reader has returned, in order
    buf,             \* _run_listen_remote's local buf: the chunks of the unfinished line
    lines,           \* the lines _run_listen_remote has passed to handle_line, in order
    package,         \* self.package: the manifest, its items in insertion order
    manifests,       \* two manifests package_signature is applied to
    signatures,      \* the signature computed for each of the two, or "None"
    mkdir_outcome,   \* the file system: how mkdir ends under each candidate base
    env_dir,         \* self._env_dir: "None" or the path
    files,           \* the files written into environment directories
    npm_installs,    \* runs of "npm install" so far
    env_ret          \* how the last call of ensure_env_dir()/create_env() ended

vars == <<listen_socket, remote_conn, remote_proc, remote_thread, events_thread,
          events, pending, evt, pending_event, msg, pc, ret, calls, wire, netIn,
          answered, replays, nextSeq, stopped, resolved, dropped, junk, printed,
          stream, chunks, buf, lines, package, manifests, signatures, mkdir_outcome,
          env_dir, files, npm_installs, env_ret>>

engineVars == <<listen_socket, remote_conn, remote_proc, remote_thread, events_thread>>
dispVars == <<pending, evt, pending_event, resolved>>
childVars == <<netIn, answered, replays>>
readVars == <<stream, chunks, buf, lines>>
sigVars == <<manifests, signatures>>
envVars == <<package, mkdir_outcome, env_dir, files, npm_installs, env_ret>>
auxVars == <<junk, printed, readVars, sigVars, envVars>>
coreVars == <<engineVars, events, dispVars, msg, pc, ret, calls, wire, childVars,
              nextSeq, stopped, dropped, junk, printed>>

\* ------------------------------------------------------------------ values

NoVal == [type |-> "None"]
NoMsg == [cls |-> "None"]
NoExc == [cls |-> "None"]

\* str(id(evt)) and f"{event_id}": the decimal string of an address, which is not
\* the address itself.
Str(n) == <<"str", n>>

\* A JSON array as event_id: json.loads makes it a list, which cannot be hashed.
List(n) == <<"list", n>>
Hashable(event_id) == event_id[1] = "str"

\* JavaScript sources the host evaluates.
Codes == {"new Promise(r => r(42))", "throw new Error('fail')"}

\* What the host passes to await_(): an awaitable pointer, a pointer to a function,
\* and a value that is no pointer.
JavaScriptPointer(id, awaitable, repr) ==
    [cls |-> "JavaScriptPointer", id |-> id, awaitable |-> awaitable, repr |-> repr]
AwaitArgs == {JavaScriptPointer(1, TRUE, "Promise { 42 }"),
              JavaScriptPointer(2, FALSE, "[Function: yolo]"),
              [cls |-> "str", data |-> "foo"]}

\* send_message() payloads.
Datas == {[type |-> "ping"]}

\* Eval and Await: the dataclasses, with success None until the dispatcher sets it.
\* afterStop and seq are history: the call began after a stop() had returned, and it
\* is the seq-th request put on the queue.
Eval(a, code) ==
    [cls |-> "Eval", id |-> a, arg |-> code, set |-> FALSE, success |-> "None",
     result |-> NoVal, error |-> NoVal, afterStop |-> stopped, seq |-> nextSeq]
Await(a, pointer_id) ==
    [cls |-> "Await", id |-> a, arg |-> pointer_id, set |-> FALSE, success |-> "None",
     result |-> NoVal, error |-> NoVal, afterStop |-> stopped, seq |-> nextSeq]

\* id(): addresses of the objects alive now. An Eval/Await is alive while its caller,
\* the queue, the pending table or a local of the dispatcher refers to it; the queue
\* and the table only hold objects whose caller is still inside eval()/await_().
LiveAddrs ==
    {msg[t].id : t \in {u \in Threads : msg[u].cls # "None"}}
        \cup ({evt, pending_event} \ {0})

\* The host thread whose call owns the object at address a.
Owner(a) == CHOOSE t \in Threads : msg[t].cls # "None" /\ msg[t].id = a

\* ------------------------------------------------------------------ child

\* The child's half of the protocol: what it answers to eval(code).
EvalJS(code) ==
    CASE code = "new Promise(r => r(42))" ->
            [result |-> [type |-> "pointer", id |-> 1, awaitable |-> TRUE,
                         repr |-> "Promise { 42 }"]]
      [] OTHER ->
            [error |-> [message |-> "fail", stack |-> "Error: fail at evalmachine",
                        code |-> "E_FAIL"]]

\* What the child answers to await(pointer_id).
AwaitJS(pointer_id) ==
    CASE pointer_id = 1 ->
            [result |-> [type |-> "naive", data |-> 42]]
      [] OTHER ->
            [error |-> [message |-> "unknown pointer", stack |-> "Error: unknown pointer"]]

\* The response line to a request line.
Response(line) ==
    LET payload == IF line.type = "eval" THEN EvalJS(line.payload.code)
                   ELSE AwaitJS(line.payload.pointer_id)
        suffix == IF "result" \in DOMAIN payload THEN "_result" ELSE "_error"
    IN  [type |-> line.type \o suffix, event_id |-> line.payload.event_id,
         payload |-> payload]

\* A line the child writes: the UTF-8 JSON text of content, or bytes that are none.
Line(content) == [utf8_json |-> TRUE, content |-> content]
Malformed == [utf8_json |-> FALSE, content |-> [raw |-> "{\"type\": \"eval_res"]]

\* The child reads the wire line by line: entry i is a line of its own when it was
\* written whole and the write before it was whole too (a write cut short has no
\* newline, and runs into the next one).
ChildReads(i) ==
    /\ wire[i].complete
    /\ i > 1 => wire[i - 1].complete

\* The child answers a request it has read and not answered yet, in any order.
ChildRespond(i) ==
    /\ remote_proc = "running"
    /\ remote_conn = "open"
    /\ i \in (1..Len(wire)) \ answered
    /\ ChildReads(i)
    /\ wire[i].line.type \in {"eval", "await"}
    /\ netIn' = Append(netIn, Line(Response(wire[i].line)))
    /\ answered' = answered \cup {i}
    /\ UNCHANGED <<engineVars, events, dispVars, msg, pc, ret, calls, wire, replays,
                   nextSeq, stopped>>
    /\ UNCHANGED <<dropped, auxVars>>

\* The child sends the response to a request a second time.
ChildReplay(i) ==
    /\ remote_proc = "running"
    /\ remote_conn = "open"
    /\ i \in answered
    /\ replays < MaxReplay
    /\ replays' = replays + 1
    /\ netIn' = Append(netIn, Line(Response(wire[i].line)))
    /\ UNCHANGED <<engineVars, events, dispVars, msg, pc, ret, calls, wire, answered,
                   nextSeq, stopped>>
    /\ UNCHANGED <<dropped, auxVars>>

\* Lines that answer no request: bytes that are no JSON, a type the engine does not
\* know, no type, no event_id, an event_id nobody waits for, an event_id that is a
\* JSON array.
JunkLines ==
    {Malformed,
     Line([type |-> "hello", payload |-> [result |-> NoVal], event_id |-> Str(0)]),
     Line([payload |-> [result |-> NoVal], event_id |-> Str(0)]),
     Line([type |-> "eval_result", payload |-> [result |-> NoVal]]),
     Line([type |-> "eval_result", payload |-> [result |-> NoVal], event_id |-> Str(0)]),
     Line([type |-> "eval_error", payload |-> [error |-> NoVal], event_id |-> List(0)])}

\* Payloads of the wrong shape: an object with neither result nor error, and a string.
WrongPayloads == {[data |-> 42], [str |-> "oops"]}

\* The child answers a request with the right type and event_id and a payload of the
\* wrong shape.
ChildMisshape(i, payload) ==
    /\ remote_proc = "running"
    /\ remote_conn = "open"
    /\ i \in (1..Len(wire)) \ answered
    /\ ChildReads(i)
    /\ wire[i].line.type \in {"eval", "await"}
    /\ netIn' = Append(netIn, Line([Response(wire[i].line) EXCEPT !.payload = payload]))
    /\ answered' = answered \cup {i}
    /\ UNCHANGED <<engineVars, events, dispVars, msg, pc, ret, calls, wire, replays,
                   nextSeq, stopped>>
    /\ UNCHANGED <<dropped, auxVars>>

\* The child writes a line that answers no request.
ChildJunk(line) ==
    /\ remote_proc = "running"
    /\ remote_conn = "open"
    /\ calls + junk < MaxCalls
    /\ junk' = junk + 1
    /\ netIn' = Append(netIn, line)
    /\ UNCHANGED <<engineVars, events, dispVars, msg, pc, ret, calls, wire, answered,
                   replays, nextSeq, stopped, dropped, printed, readVars, sigVars, envVars>>

\* The child exits: it crashed, or its peer closed the connection.
ChildExit ==
    /\ remote_proc = "running"
    /\ remote_proc' = "exited"
    /\ UNCHANGED <<listen_socket, remote_conn, remote_thread, events_thread, events,
                   dispVars, msg, pc, ret, calls, wire, childVars, nextSeq, stopped>>
    /\ UNCHANGED <<dropped, auxVars>>

\* ------------------------------------------------------------------ host calls

Returned(op, arg, value) ==
    [op |-> op, arg |-> arg, outcome |-> "return", value |-> value, exc |-> NoExc]
Raised(op, arg, exc) ==
    [op |-> op, arg |-> arg, outcome |-> "raise", value |-> NoVal, exc |-> exc]
NoArg == [cls |-> "None"]
NoRet == [op |-> "None", arg |-> NoArg, outcome |-> "None", value |-> NoVal, exc |-> NoExc]

\* The host calls into an engine it has started.
CanCall(t) == pc[t] = "idle" /\ listen_socket # "None" /\ calls + junk < MaxCalls

\* A call overwrites what the thread kept of its last one: a JavaScriptPointer it held
\* is dropped, the last handle to it when no other thread holds one to the same id.
Drop(t) ==
    IF /\ "cls" \in DOMAIN ret[t].value
       /\ ret[t].value.cls = "JavaScriptPointer"
       /\ \A u \in Threads \ {t} : ret[u].value # ret[t].value
    THEN dropped \cup {ret[t].value.id}
    ELSE dropped

\* put() on a queue without a maximum size: it never blocks.
CanPutUnbounded == TRUE

\* self._events.put(x): blocks while the queue is full.
CanPut == Len(events) < QueueCap

\* A start() that also starts the dispatcher thread, without waiting for the child.
startDispatcherAtOnce(t) ==
    /\ pc[t] = "idle"
    /\ listen_socket = "None"
    /\ listen_socket' = "open"
    /\ remote_proc' = "running"
    /\ remote_thread' = "accepting"
    /\ events_thread' = "running"
    /\ ret' = [ret EXCEPT ![t] = Returned("start", NoArg, NoVal)]
    /\ UNCHANGED <<remote_conn, events, dispVars, msg, pc, calls, wire, childVars,
                   nextSeq, stopped>>
    /\ UNCHANGED <<dropped, auxVars>>

\* start(), create_env() succeeding: the listener is open, the child is spawned and
\* the reader thread is started; the dispatcher thread is created, not started.
start(t) ==
    /\ pc[t] = "idle"
    /\ listen_socket = "None"
    /\ listen_socket' = "open"
    /\ remote_proc' = "running"
    /\ remote_thread' = "accepting"
    /\ events_thread' = "created"
    /\ ret' = [ret EXCEPT ![t] = Returned("start", NoArg, NoVal)]
    /\ UNCHANGED <<remote_conn, events, dispVars, msg, pc, calls, wire, childVars,
                   nextSeq, stopped>>
    /\ UNCHANGED <<dropped, auxVars>>

\* eval(code) up to msg.event.wait(): the Eval is allocated and put on the queue.
eval(t, code) ==
    /\ CanCall(t)
    /\ CanPut
    /\ \E a \in Addr \ LiveAddrs :
        /\ msg' = [msg EXCEPT ![t] = Eval(a, [cls |-> "code", src |-> code])]
        /\ events' = Append(events, [cls |-> "Eval", ref |-> a, seq |-> nextSeq,
                                     by |-> t])
    /\ pc' = [pc EXCEPT ![t] = "waiting"]
    /\ ret' = [ret EXCEPT ![t] = NoRet]
    /\ calls' = calls + 1
    /\ nextSeq' = nextSeq + 1
    /\ UNCHANGED <<engineVars, dispVars, wire, childVars, stopped>>
    /\ dropped' = Drop(t)
    /\ UNCHANGED auxVars

\* await_() without its check of pointer.awaitable.
await_NoAwaitableCheck(t, pointer) ==
    /\ CanCall(t)
    /\ calls' = calls + 1
    /\ IF pointer.cls # "JavaScriptPointer"
       THEN /\ ret' = [ret EXCEPT ![t] = Raised("await_", pointer, [cls |-> "TypeError"])]
            /\ UNCHANGED <<events, msg, pc, nextSeq>>
       ELSE /\ CanPut
            /\ \E a \in Addr \ LiveAddrs :
                /\ msg' = [msg EXCEPT ![t] =
                              Await(a, [cls |-> "pointer_id", id |-> pointer.id])]
                /\ events' = Append(events, [cls |-> "Await", ref |-> a, seq |-> nextSeq,
                                             by |-> t])
            /\ pc' = [pc EXCEPT ![t] = "waiting"]
            /\ ret' = [ret EXCEPT ![t] = NoRet]
            /\ nextSeq' = nextSeq + 1
    /\ UNCHANGED <<engineVars, dispVars, wire, childVars, stopped>>
    /\ dropped' = Drop(t)
    /\ UNCHANGED auxVars

\* await_(pointer) up to msg.event.wait(): the two checks, then as eval().
await_(t, pointer) ==
    /\ CanCall(t)
    /\ calls' = calls + 1
    /\ IF pointer.cls # "JavaScriptPointer"
       THEN /\ ret' = [ret EXCEPT ![t] = Raised("await_", pointer, [cls |-> "TypeError"])]
            /\ UNCHANGED <<events, msg, pc, nextSeq>>
       ELSE IF ~pointer.awaitable
       THEN /\ ret' = [ret EXCEPT ![t] =
                          Raised("await_", pointer, [cls |-> "NodeEdgeValueError"])]
            /\ UNCHANGED <<events, msg, pc, nextSeq>>
       ELSE /\ CanPut
            /\ \E a \in Addr \ LiveAddrs :
                /\ msg' = [msg EXCEPT ![t] =
                              Await(a, [cls |-> "pointer_id", id |-> pointer.id])]
                /\ events' = Append(events, [cls |-> "Await", ref |-> a, seq |-> nextSeq,
                                             by |-> t])
            /\ pc' = [pc EXCEPT ![t] = "waiting"]
            /\ ret' = [ret EXCEPT ![t] = NoRet]
            /\ nextSeq' = nextSeq + 1
    /\ UNCHANGED <<engineVars, dispVars, wire, childVars, stopped>>
    /\ dropped' = Drop(t)
    /\ UNCHANGED auxVars

\* _final_value(msg): a pointer envelope becomes a JavaScriptPointer, a naive one its
\* data, anything else None.
_final_value(m) ==
    IF m.type = "pointer" THEN JavaScriptPointer(m.id, m.awaitable, m.repr)
    ELSE IF m.type = "naive" THEN [cls |-> "naive", data |-> m.data]
    ELSE [cls |-> "None"]

\* A JavaScriptError that keeps message and stack only.
JavaScriptErrorNoExtra(error) ==
    [cls |-> "JavaScriptError", message |-> error.message, stack |-> error.stack,
     extra |-> [f \in {} |-> ""]]

\* JavaScriptError(**error): message and stack with their defaults, the rest extra.
JavaScriptError(error) ==
    [cls |-> "JavaScriptError",
     message |-> IF "message" \in DOMAIN error THEN error.message ELSE "unknown error",
     stack |-> IF "stack" \in DOMAIN error THEN error.stack ELSE "",
     extra |-> [f \in DOMAIN error \ {"message", "stack"} |-> error[f]]]

OpOf(m) == IF m.cls = "Eval" THEN "eval" ELSE "await_"

\* eval() and await_() after msg.event.wait(): the value, or the JavaScriptError.
WaitReturn(t) ==
    /\ pc[t] = "waiting"
    /\ msg[t].set
    /\ ret' = [ret EXCEPT ![t] =
                  IF msg[t].success = "True"
                  THEN Returned(OpOf(msg[t]), msg[t].arg, _final_value(msg[t].result))
                  ELSE Raised(OpOf(msg[t]), msg[t].arg, JavaScriptError(msg[t].error))]
    /\ msg' = [msg EXCEPT ![t] = NoMsg]
    /\ pc' = [pc EXCEPT ![t] = "idle"]
    /\ UNCHANGED <<engineVars, events, dispVars, calls, wire, childVars, nextSeq, stopped>>
    /\ UNCHANGED <<dropped, auxVars>>

\* send_message(data): a LocalMessage is put on the queue; the caller does not wait.
send_message(t, data) ==
    /\ CanCall(t)
    /\ CanPut
    /\ events' = Append(events, [cls |-> "LocalMessage", content |-> data,
                                 seq |-> nextSeq, by |-> t])
    /\ ret' = [ret EXCEPT ![t] = Returned("send_message", NoArg, NoVal)]
    /\ calls' = calls + 1
    /\ nextSeq' = nextSeq + 1
    /\ UNCHANGED <<engineVars, dispVars, msg, pc, wire, childVars, stopped>>
    /\ dropped' = Drop(t)
    /\ UNCHANGED auxVars

\* A stop() that also empties the pending table.
stopClearPending(t) ==
    /\ CanCall(t)
    /\ remote_conn' = IF remote_conn = "None" THEN "None" ELSE "closed"
    /\ listen_socket' = IF listen_socket = "None" THEN "None" ELSE "closed"
    /\ pending' = [x \in {} |-> 0]
    /\ pc' = [pc EXCEPT ![t] = "stop_put"]
    /\ ret' = [ret EXCEPT ![t] = NoRet]
    /\ calls' = calls + 1
    /\ UNCHANGED <<remote_proc, remote_thread, events_thread, events, evt, pending_event,
                   resolved, msg, wire, childVars, nextSeq, stopped>>
    /\ dropped' = Drop(t)
    /\ UNCHANGED auxVars

\* stop() up to self._events.put(Finish()): the two sockets are closed.
stop(t) ==
    /\ CanCall(t)
    /\ remote_conn' = IF remote_conn = "None" THEN "None" ELSE "closed"
    /\ listen_socket' = IF listen_socket = "None" THEN "None" ELSE "closed"
    /\ pc' = [pc EXCEPT ![t] = "stop_put"]
    /\ ret' = [ret EXCEPT ![t] = NoRet]
    /\ calls' = calls + 1
    /\ UNCHANGED <<remote_proc, remote_thread, events_thread, events, dispVars, msg,
                   wire, childVars, nextSeq, stopped>>
    /\ dropped' = Drop(t)
    /\ UNCHANGED auxVars

\* stop(): self._events.put(Finish()), and stop() returns.
StopPut(t) ==
    /\ pc[t] = "stop_put"
    /\ CanPut
    /\ events' = Append(events, [cls |-> "Finish"])
    /\ pc' = [pc EXCEPT ![t] = "idle"]
    /\ ret' = [ret EXCEPT ![t] = Returned("stop", NoArg, NoVal)]
    /\ stopped' = TRUE
    /\ UNCHANGED <<engineVars, dispVars, msg, calls, wire, childVars, nextSeq>>
    /\ UNCHANGED <<dropped, auxVars>>

\* ------------------------------------------------------------------ environment

\* A manifest is a mapping; a Python dict keeps its items in insertion order, so it is
\* the sequence of its <<key, value>> items, the keys distinct.
Keys == {"name", "version", "description"}
Values == {"1.0.0", "x"}
Manifests ==
    UNION {{m \in [1..n -> Keys \X Values] :
               \A i, j \in 1..n : i # j => m[i][1] # m[j][1]} : n \in 0..MaxKeys}

\* The mapping a manifest is, whatever the order of its items: what == compares.
AsMapping(m) ==
    [k \in {m[i][1] : i \in 1..Len(m)} |->
        (CHOOSE item \in {m[i] : i \in 1..Len(m)} : item[1] = k)[2]]

\* json.dumps(package, ensure_ascii=True): the text, token by token, the items in
\* the order the dict yields them (no sort_keys).
RECURSIVE json_items(_)
json_items(m) ==
    IF m = <<>> THEN <<>>
    ELSE <<"\"", m[1][1], "\": \"", m[1][2], "\"">>
            \o (IF Len(m) > 1 THEN <<", ">> ELSE <<>>)
            \o json_items(Tail(m))
json_dumps(m) == (<<"{">> \o json_items(m)) \o <<"}">>

\* sha256(text).hexdigest(): a digest that stands for its text; different texts have
\* different digests.
sha256_hexdigest(text) == <<"sha256", text>>

\* The property package_signature, of an engine whose package is m.
package_signature(m) == sha256_hexdigest(json_dumps(m))

NoSig == <<"None">>

\* package_signature is read on the i-th of the two manifests.
ReadSignature(i) ==
    /\ signatures' = [signatures EXCEPT ![i] = package_signature(manifests[i])]
    /\ UNCHANGED <<manifests, coreVars, readVars, envVars>>

\* The candidate bases of _ensure_env_dir, in its order, and the path under one.
Candidates == <<"xdg_state_home()", "gettempdir()">>
NoPath == [cls |-> "None"]
full_path(i) ==
    [cls |-> "Path", base |-> Candidates[i],
     parts |-> <<"node_edge", "envs", package_signature(package)>>]

\* How path.mkdir(parents=True, exist_ok=True) can end: the directory is there, one of
\* the two errors _try_env_candidate catches, or another OSError (a read-only file
\* system, a regular file at the path, no space left).
MkdirOutcomes == {"ok", "PermissionError", "NotADirectoryError", "OSError"}

NodeEdgeException(message) == [cls |-> "NodeEdgeException", message |-> message]

\* _ensure_env_dir, from the i-th candidate on: the first candidate whose mkdir works
\* is returned; one that raises a caught error is skipped; any other error leaves
\* the loop as it is; after the last candidate NodeEdgeException is raised.
RECURSIVE _ensure_env_dir(_)
_ensure_env_dir(i) ==
    IF i > Len(Candidates)
    THEN [raised |-> TRUE, path |-> NoPath,
          exc |-> NodeEdgeException("Could not find/create env dir")]
    ELSE IF mkdir_outcome[i] = "ok"
    THEN [raised |-> FALSE, path |-> full_path(i), exc |-> NoExc]
    ELSE IF mkdir_outcome[i] \in {"PermissionError", "NotADirectoryError"}
    THEN _ensure_env_dir(i + 1)
    ELSE [raised |-> TRUE, path |-> NoPath,
          exc |-> [cls |-> mkdir_outcome[i], message |-> "mkdir"]]

\* ensure_env_dir(force) as a function of the state: the cached path, or the guess.
EnsureEnvDir(force) ==
    IF env_dir = NoPath \/ force THEN _ensure_env_dir(1)
    ELSE [raised |-> FALSE, path |-> env_dir, exc |-> NoExc]

\* ensure_env_dir(force): self._env_dir is assigned when the guess returns.
ensure_env_dir(force) ==
    /\ LET r == EnsureEnvDir(force)
       IN  /\ env_dir' = IF r.raised THEN env_dir ELSE r.path
           /\ env_ret' = IF r.raised THEN Raised("ensure_env_dir", NoArg, r.exc)
                         ELSE Returned("ensure_env_dir", NoArg, r.path)
    /\ UNCHANGED <<package, mkdir_outcome, files, npm_installs>>
    /\ UNCHANGED <<coreVars, readVars, sigVars>>

\* create_env(): ensure_env_dir(), then package.json and index.js are written and
\* "npm install" runs; a non-zero exit raises NodeEdgeException.
create_env(exit_code) ==
    /\ npm_installs < MaxInstalls
    /\ LET r == EnsureEnvDir(FALSE)
       IN  IF r.raised
           THEN /\ env_ret' = Raised("create_env", NoArg, r.exc)
                /\ UNCHANGED <<env_dir, files, npm_installs>>
           ELSE /\ env_dir' = r.path
                /\ files' = files \cup {[dir |-> r.path, name |-> "package.json"],
                                        [dir |-> r.path, name |-> "index.js"]}
                /\ npm_installs' = npm_installs + 1
                /\ env_ret' = IF exit_code = 0
                              THEN Returned("create_env", NoArg, r.path)
                              ELSE Raised("create_env", NoArg,
                                          NodeEdgeException("Could not create env"))
    /\ UNCHANGED <<package, mkdir_outcome>>
    /\ UNCHANGED <<coreVars, readVars, sigVars>>

\* A start() that opens the listener before it calls create_env().
StartListenFirst(t, exit_code) ==
    /\ pc[t] = "idle"
    /\ listen_socket = "None"
    /\ npm_installs < MaxInstalls
    /\ LET r == EnsureEnvDir(FALSE)
       IN  IF r.raised
           THEN /\ ret' = [ret EXCEPT ![t] = Raised("start", NoArg, r.exc)]
                /\ UNCHANGED <<env_dir, files, npm_installs>>
                /\ listen_socket' = "open"
                /\ UNCHANGED <<remote_proc, remote_thread, events_thread>>
           ELSE /\ env_dir' = r.path
                /\ files' = files \cup {[dir |-> r.path, name |-> "package.json"],
                                        [dir |-> r.path, name |-> "index.js"]}
                /\ npm_installs' = npm_installs + 1
                /\ IF exit_code # 0
                   THEN /\ ret' = [ret EXCEPT ![t] =
                                      Raised("start", NoArg,
                                             NodeEdgeException("Could not create env"))]
                        /\ listen_socket' = "open"
                        /\ UNCHANGED <<remote_proc, remote_thread, events_thread>>
                   ELSE /\ ret' = [ret EXCEPT ![t] = Returned("start", NoArg, NoVal)]
                        /\ listen_socket' = "open"
                        /\ remote_proc' = "running"
                        /\ remote_thread' = "accepting"
                        /\ events_thread' = "created"
    /\ UNCHANGED <<remote_conn, events, dispVars, msg, pc, calls, wire, childVars,
                   nextSeq, stopped, dropped, junk, printed>>
    /\ UNCHANGED <<package, mkdir_outcome, env_ret, readVars, sigVars>>

\* start() in full: create_env() first, with whatever the file system and the
\* installer do; only when it returns are the listener opened, the child spawned, the
\* two threads created and the reader started.
StartCreateEnv(t, exit_code) ==
    /\ pc[t] = "idle"
    /\ listen_socket = "None"
    /\ npm_installs < MaxInstalls
    /\ LET r == EnsureEnvDir(FALSE)
       IN  IF r.raised
           THEN /\ ret' = [ret EXCEPT ![t] = Raised("start", NoArg, r.exc)]
                /\ UNCHANGED <<env_dir, files, npm_installs>>
                /\ UNCHANGED <<listen_socket, remote_proc, remote_thread,
                                    events_thread>>
           ELSE /\ env_dir' = r.path
                /\ files' = files \cup {[dir |-> r.path, name |-> "package.json"],
                                        [dir |-> r.path, name |-> "index.js"]}
                /\ npm_installs' = npm_installs + 1
                /\ IF exit_code # 0
                   THEN /\ ret' = [ret EXCEPT ![t] =
                                      Raised("start", NoArg,
                                             NodeEdgeException("Could not create env"))]
                        /\ UNCHANGED <<listen_socket, remote_proc, remote_thread,
                                    events_thread>>
                   ELSE /\ ret' = [ret EXCEPT ![t] = Returned("start", NoArg, NoVal)]
                        /\ listen_socket' = "open"
                        /\ remote_proc' = "running"
                        /\ remote_thread' = "accepting"
                        /\ events_thread' = "created"
    /\ UNCHANGED <<remote_conn, events, dispVars, msg, pc, calls, wire, childVars,
                   nextSeq, stopped, dropped, junk, printed>>
    /\ UNCHANGED <<package, mkdir_outcome, env_ret, readVars, sigVars>>

\* ------------------------------------------------------------------ reader

\* _run_listen_remote up to its read loop: the child's connection is accepted and the
\* dispatcher thread is started.
Accept ==
    /\ remote_thread = "accepting"
    /\ listen_socket = "open"
    /\ remote_proc = "running"
    /\ remote_conn' = "open"
    /\ remote_thread' = "reading"
    /\ events_thread' = "running"
    /\ UNCHANGED <<listen_socket, remote_proc, events, dispVars, msg, pc, ret, calls,
                   wire, childVars, nextSeq, stopped>>
    /\ UNCHANGED <<dropped, auxVars>>

\* json.loads(b_line.decode("utf-8")): the content of the line, or ValueError /
\* UnicodeError when the bytes are no UTF-8 JSON text.
json_loads(line) ==
    IF line.utf8_json THEN [ok |-> TRUE, value |-> line.content]
    ELSE [ok |-> FALSE, value |-> line.content]

\* handle_line: a line read from the connection is put on the queue as a
\* RemoteMessage, or, when it cannot be decoded, a ProtocolError is. seq is history:
\* the number of requests put on the queue before it.
handle_line ==
    /\ remote_thread = "reading"
    /\ remote_conn = "open"
    /\ netIn # <<>>
    /\ CanPut
    /\ LET decoded == json_loads(Head(netIn))
       IN  events' = Append(events,
                        IF decoded.ok
                        THEN [cls |-> "RemoteMessage", content |-> decoded.value]
                        ELSE [cls |-> "ProtocolError",
                              message |-> "Could not decode Node output",
                              seq |-> nextSeq])
    /\ netIn' = Tail(netIn)
    /\ UNCHANGED <<engineVars, dispVars, msg, pc, ret, calls, wire, answered, replays,
                   nextSeq, stopped>>
    /\ UNCHANGED <<dropped, auxVars>>

\* recv() on the connection stop() closed raises OSError(errno=9): the reader ends.
ReaderExit ==
    /\ remote_thread = "reading"
    /\ remote_conn = "closed"
    /\ remote_thread' = "exited"
    /\ UNCHANGED <<listen_socket, remote_conn, remote_proc, events_thread, events,
                   dispVars, msg, pc, ret, calls, wire, childVars, nextSeq, stopped>>
    /\ UNCHANGED <<dropped, auxVars>>

\* ------------------------------------------------------------------ reader, bytes

\* The bytes of the connection: two letters and the newline.
Bytes == {"a", "b", "\n"}
Streams == UNION {[1..n -> Bytes] : n \in 0..MaxStream}

\* chunk.split(b"\n"): the fragments between the newlines, one more than there are
\* newlines; a fragment may be empty.
RECURSIVE Split(_)
Split(s) ==
    IF \A i \in 1..Len(s) : s[i] # "\n" THEN <<s>>
    ELSE LET i == CHOOSE k \in 1..Len(s) :
                      s[k] = "\n" /\ \A l \in 1..(k - 1) : s[l] # "\n"
         IN  <<SubSeq(s, 1, i - 1)>> \o Split(SubSeq(s, i + 1, Len(s)))

\* b"".join(parts).
RECURSIVE Join(_)
Join(parts) == IF parts = <<>> THEN <<>> ELSE Head(parts) \o Join(Tail(parts))

\* The body of the read loop that starts every line afresh from its chunk.
ReadChunkNoResidual(chunk) ==
    LET bits == Split(chunk)
    IN  IF Len(bits) = 1
        THEN [buf |-> Append(buf, chunk), lines |-> lines]
        ELSE [buf |-> <<bits[Len(bits)]>>,
              lines |-> lines \o SubSeq(bits, 1, Len(bits) - 1)]

\* The body of the read loop for one chunk: without a newline the chunk joins buf;
\* with one, buf and the first fragment make a line, the fragments between are
\* lines, and the last fragment is the new buf.
ReadChunk(chunk) ==
    LET bits == Split(chunk)
    IN  IF Len(bits) = 1
        THEN [buf |-> Append(buf, chunk), lines |-> lines]
        ELSE LET first_line == Join(buf \o SubSeq(bits, 1, 1))
             IN  [buf |-> <<bits[Len(bits)]>>,
                  lines |-> (lines \o <<first_line>>) \o SubSeq(bits, 2, Len(bits) - 1)]

\* The bytes received so far.
Received == Join(chunks)

\* chunk := self._remote_conn.recv(1024**2): the next n bytes of the stream, for any
\* n the network delivers, and the loop body on them.
recv(n) ==
    /\ n \in 1..(Len(stream) - Len(Received))
    /\ LET chunk == SubSeq(stream, Len(Received) + 1, Len(Received) + n)
       IN  /\ chunks' = Append(chunks, chunk)
           /\ buf' = ReadChunk(chunk).buf
           /\ lines' = ReadChunk(chunk).lines
    /\ UNCHANGED <<stream, coreVars, sigVars, envVars>>

\* ------------------------------------------------------------------ dispatcher

\* How self._remote_conn.send(bytes) can end. The connection is non-blocking and the
\* count send() returns is not looked at: the line is written whole ("full"), cut
\* short ("partial"), or send() raises (the buffer is full, the peer is gone); on the
\* connection stop() closed it always raises.
SendOutcomes ==
    IF remote_conn = "open" THEN {"full", "partial", "raise"} ELSE {"raise"}

\* _send_message(data): the wire after the send.
_send_message(data, e, outcome) ==
    IF outcome = "raise" THEN wire
    ELSE Append(wire, [line |-> data, complete |-> (outcome = "full"),
                       seq |-> e.seq, by |-> e.by])

\* The dispatcher thread after the send: an exception ends it.
AfterSend(outcome) == IF outcome = "raise" THEN "crashed" ELSE "running"

\* A queue that hands out its newest item first.
QueueGetNewest == [item |-> events[Len(events)], rest |-> SubSeq(events, 1, Len(events) - 1)]

\* self._events.get(): the oldest item of the queue, and the queue without it.
QueueGet == [item |-> Head(events), rest |-> Tail(events)]

NextEvent == QueueGet.item
RestEvents == QueueGet.rest

Dispatching == events_thread = "running" /\ events # <<>>

\* The requests _eval and _await build.
_eval(event_id, code) ==
    [type |-> "eval", payload |-> [event_id |-> Str(event_id), code |-> code]]
_await(event_id, pointer_id) ==
    [type |-> "await", payload |-> [event_id |-> Str(event_id), pointer_id |-> pointer_id]]

\* self._pending[key] = evt and self._pending.pop(key).
PendingPut(key, a) ==
    [x \in DOMAIN pending \cup {key} |-> IF x = key THEN a ELSE pending[x]]
PendingPop(key) == [x \in DOMAIN pending \ {key} |-> pending[x]]

\* case Finish(): break.
DispatchFinish ==
    /\ Dispatching
    /\ NextEvent.cls = "Finish"
    /\ events' = RestEvents
    /\ events_thread' = "finished"
    /\ evt' = 0
    /\ pending_event' = 0
    /\ UNCHANGED <<listen_socket, remote_conn, remote_proc, remote_thread, pending,
                   resolved, msg, pc, ret, calls, wire, childVars, nextSeq, stopped>>
    /\ UNCHANGED <<dropped, auxVars>>

\* case LocalMessage(content=data): self._send_message(data).
DispatchLocalMessage ==
    /\ Dispatching
    /\ NextEvent.cls = "LocalMessage"
    /\ events' = RestEvents
    /\ \E outcome \in SendOutcomes :
        /\ wire' = _send_message(NextEvent.content, NextEvent, outcome)
        /\ events_thread' = AfterSend(outcome)
        /\ evt' = 0
        /\ pending_event' = IF outcome = "raise" THEN 0 ELSE pending_event
    /\ UNCHANGED <<listen_socket, remote_conn, remote_proc, remote_thread, pending,
                   resolved, msg, pc, ret, calls, childVars, nextSeq, stopped>>
    /\ UNCHANGED <<dropped, auxVars>>

\* case Eval(code=code) and case Await(pointer_id=pointer_id): the waiter is
\* registered under str(id(evt)), then the request is sent.
DispatchRequest ==
    /\ Dispatching
    /\ NextEvent.cls \in {"Eval", "Await"}
    /\ events' = RestEvents
    /\ LET a == NextEvent.ref
           m == msg[Owner(a)]
           request == IF NextEvent.cls = "Eval" THEN _eval(a, m.arg.src)
                      ELSE _await(a, m.arg.id)
       IN  /\ pending' = PendingPut(Str(a), a)
           /\ \E outcome \in SendOutcomes :
                /\ wire' = _send_message(request, NextEvent, outcome)
                /\ events_thread' = AfterSend(outcome)
                /\ evt' = IF outcome = "raise" THEN 0 ELSE a
                /\ pending_event' = IF outcome = "raise" THEN 0 ELSE pending_event
    /\ UNCHANGED <<listen_socket, remote_conn, remote_proc, remote_thread, resolved,
                   msg, pc, ret, calls, childVars, nextSeq, stopped>>
    /\ UNCHANGED <<dropped, auxVars>>

\* The mapping patterns of _run_events: content has the three keys, and the type.
ResultTypes == {"eval_result", "await_result"}
ErrorTypes == {"eval_error", "await_error"}
Matches(content, types) ==
    /\ {"type", "payload", "event_id"} \subseteq DOMAIN content
    /\ content.type \in types

\* payload[key] can be read: payload is an object that has the key (a payload that
\* is no object is a record with neither "result" nor "error").
HasKey(payload, key) == key \in DOMAIN payload

\* A lookup that ignores the event_id and takes any waiter of the table.
WaiterAny(event_id) == pending[CHOOSE x \in DOMAIN pending : x # event_id \/ DOMAIN pending = {x}]

\* The waiter a response resolves: self._pending[event_id].
Waiter(event_id) == pending[event_id]

\* case RemoteMessage(content={"type": "X_result", ...}): the waiter registered under
\* event_id is popped, given the result and notified. "event_id in self._pending"
\* hashes event_id: on a list it raises TypeError, which ends the dispatcher thread.
\* payload["result"] is read after the pop and after success is assigned: on a
\* payload without that key (KeyError), or one that is no object (TypeError), the
\* thread ends with the waiter out of the table and its event not set.
DispatchResult ==
    /\ Dispatching
    /\ NextEvent.cls = "RemoteMessage"
    /\ Matches(NextEvent.content, ResultTypes)
    /\ events' = RestEvents
    /\ evt' = 0
    /\ LET event_id == NextEvent.content.event_id
           payload == NextEvent.content.payload
       IN  IF ~Hashable(event_id)
           THEN /\ events_thread' = "crashed"
                /\ pending_event' = 0
                /\ UNCHANGED <<pending, msg, resolved>>
           ELSE IF event_id \in DOMAIN pending /\ ~HasKey(payload, "result")
           THEN LET a == Waiter(event_id)
                    t == Owner(a)
                IN  /\ pending' = PendingPop(event_id)
                    /\ msg' = [msg EXCEPT ![t].success = "True"]
                    /\ events_thread' = "crashed"
                    /\ pending_event' = 0
                    /\ UNCHANGED resolved
           ELSE IF event_id \in DOMAIN pending
           THEN LET a == Waiter(event_id)
                    t == Owner(a)
                IN  /\ pending' = PendingPop(event_id)
                    /\ pending_event' = a
                    /\ msg' = [msg EXCEPT ![t].success = "True",
                                          ![t].result = payload.result,
                                          ![t].set = TRUE]
                    /\ resolved' = [resolved EXCEPT ![event_id] = @ + 1]
                    /\ UNCHANGED events_thread
           ELSE UNCHANGED <<events_thread, pending, pending_event, msg, resolved>>
    /\ UNCHANGED <<listen_socket, remote_conn, remote_proc, remote_thread, pc, ret,
                   calls, wire, childVars, nextSeq, stopped>>
    /\ UNCHANGED <<dropped, auxVars>>

\* case RemoteMessage(content={"type": "X_error", ...}): the same with the error.
DispatchError ==
    /\ Dispatching
    /\ NextEvent.cls = "RemoteMessage"
    /\ Matches(NextEvent.content, ErrorTypes)
    /\ events' = RestEvents
    /\ evt' = 0
    /\ LET event_id == NextEvent.content.event_id
           payload == NextEvent.content.payload
       IN  IF ~Hashable(event_id)
           THEN /\ events_thread' = "crashed"
                /\ pending_event' = 0
                /\ UNCHANGED <<pending, msg, resolved>>
           ELSE IF event_id \in DOMAIN pending /\ ~HasKey(payload, "error")
           THEN LET a == Waiter(event_id)
                    t == Owner(a)
                IN  /\ pending' = PendingPop(event_id)
                    /\ msg' = [msg EXCEPT ![t].success = "False"]
                    /\ events_thread' = "crashed"
                    /\ pending_event' = 0
                    /\ UNCHANGED resolved
           ELSE IF event_id \in DOMAIN pending
           THEN LET a == Waiter(event_id)
                    t == Owner(a)
                IN  /\ pending' = PendingPop(event_id)
                    /\ pending_event' = a
                    /\ msg' = [msg EXCEPT ![t].success = "False",
                                          ![t].error = payload.error,
                                          ![t].set = TRUE]
                    /\ resolved' = [resolved EXCEPT ![event_id] = @ + 1]
                    /\ UNCHANGED events_thread
           ELSE UNCHANGED <<events_thread, pending, pending_event, msg, resolved>>
    /\ UNCHANGED <<listen_socket, remote_conn, remote_proc, remote_thread, pc, ret,
                   calls, wire, childVars, nextSeq, stopped>>
    /\ UNCHANGED <<dropped, auxVars>>

\* The events no case before "case _" takes: a ProtocolError, and a RemoteMessage
\* whose content lacks one of the three keys or has another type.
Unmatched(e) ==
    \/ e.cls = "ProtocolError"
    \/ /\ e.cls = "RemoteMessage"
       /\ ~Matches(e.content, ResultTypes \cup ErrorTypes)

\* A catch-all that raises on what it does not know, ending the dispatcher thread.
DispatchOtherRaise ==
    /\ Dispatching
    /\ Unmatched(NextEvent)
    /\ events' = RestEvents
    /\ events_thread' = "crashed"
    /\ evt' = 0
    /\ pending_event' = 0
    /\ UNCHANGED <<listen_socket, remote_conn, remote_proc, remote_thread, pending,
                   resolved, msg, pc, ret, calls, wire, childVars, nextSeq, stopped,
                   dropped, junk, printed, readVars, sigVars, envVars>>

\* case _: print(evt), for a ProtocolError and for a RemoteMessage that matches none of
\* the four patterns; the loop goes on.
DispatchOther ==
    /\ Dispatching
    /\ Unmatched(NextEvent)
    /\ events' = RestEvents
    /\ printed' = Append(printed, NextEvent)
    /\ evt' = 0
    /\ UNCHANGED <<engineVars, pending, pending_event, resolved, msg, pc, ret, calls,
                   wire, childVars, nextSeq, stopped, dropped, junk, readVars, sigVars, envVars>>

\* ------------------------------------------------------------------ specification

\* The engine as __init__ leaves it, the child not yet spawned.
InitEngine ==
    /\ listen_socket = "None"
    /\ remote_conn = "None"
    /\ remote_proc = "None"
    /\ remote_thread = "None"
    /\ events_thread = "None"
    /\ events = <<>>
    /\ pending = [x \in {} |-> 0]
    /\ evt = 0
    /\ pending_event = 0
    /\ msg = [t \in Threads |-> NoMsg]
    /\ pc = [t \in Threads |-> "idle"]
    /\ ret = [t \in Threads |-> NoRet]
    /\ calls = 0
    /\ wire = <<>>
    /\ netIn = <<>>
    /\ answered = {}
    /\ replays = 0
    /\ nextSeq = 0
    /\ stopped = FALSE
    /\ resolved = [x \in {Str(a) : a \in Addr} |-> 0]
    /\ dropped = {}
    /\ junk = 0
    /\ printed = <<>>

\* The reader's byte-level state, before anything was received.
InitRead(s) ==
    /\ stream = s
    /\ chunks = <<>>
    /\ buf = <<>>
    /\ lines = <<>>

\* No manifest has been signed.
InitSig(ms) ==
    /\ manifests = ms
    /\ signatures = [i \in DOMAIN ms |-> NoSig]

\* An engine made for the manifest m on a file system fs; no environment yet.
InitEnv(m, fs) ==
    /\ package = m
    /\ mkdir_outcome = fs
    /\ env_dir = NoPath
    /\ files = {}
    /\ npm_installs = 0
    /\ env_ret = NoRet

\* The environment is not looked at: an empty manifest, and every mkdir works.
IdleEnv == InitEnv(<<>>, [i \in DOMAIN Candidates |-> "ok"])
IdleSig == InitSig(<<<<>>, <<>>>>)

Init == InitEngine /\ InitRead(<<>>) /\ IdleSig /\ IdleEnv

HostStep ==
    \E t \in Threads :
        \/ start(t)
        \/ \E code \in Codes : eval(t, code)
        \/ \E pointer \in AwaitArgs : await_(t, pointer)
        \/ \E data \in Datas : send_message(t, data)
        \/ WaitReturn(t)
        \/ stop(t)
        \/ StopPut(t)

_run_listen_remote == Accept \/ handle_line \/ ReaderExit

_run_events ==
    \/ DispatchFinish
    \/ DispatchLocalMessage
    \/ DispatchRequest
    \/ DispatchResult
    \/ DispatchError

ChildStep == (\E i \in 1..Len(wire) : ChildRespond(i)) \/ ChildExit

Next == HostStep \/ _run_listen_remote \/ _run_events \/ ChildStep

Spec == Init /\ [][Next]_vars

\* The child may also send a response twice.
NextDup == Next \/ (\E i \in 1..Len(wire) : ChildReplay(i))

SpecDup == Init /\ [][NextDup]_vars

\* The child may also write lines that answer no request; the dispatcher's "case _"
\* takes what they become.
NextJunk == Next \/ (\E line \in JunkLines : ChildJunk(line)) \/ DispatchOther

SpecJunk == Init /\ [][NextJunk]_vars

\* The child may also answer a request with a payload of the wrong shape.
NextShape ==
    Next \/ (\E i \in 1..Len(wire), payload \in WrongPayloads : ChildMisshape(i, payload))

SpecShape == Init /\ [][NextShape]_vars

\* The read loop alone, on every byte stream and every way the network cuts it.
InitStream == InitEngine /\ IdleSig /\ IdleEnv /\ \E s \in Streams : InitRead(s)

NextRead == \E n \in 1..MaxStream : recv(n)

SpecRead == InitStream /\ [][NextRead]_vars

\* package_signature alone, on every pair of manifests.
InitManifests ==
    /\ InitEngine /\ InitRead(<<>>) /\ IdleEnv
    /\ \E ms \in [1..2 -> Manifests] : InitSig(ms)

NextSig == \E i \in 1..2 : ReadSignature(i)

SpecSig == InitManifests /\ [][NextSig]_vars

\* ensure_env_dir() and create_env() alone, for every manifest and every way mkdir
\* ends under the two candidates.
InitFs ==
    /\ InitEngine /\ InitRead(<<>>) /\ IdleSig
    /\ \E m \in Manifests, fs \in [DOMAIN Candidates -> MkdirOutcomes] : InitEnv(m, fs)

NextEnv ==
    \/ \E force \in BOOLEAN : ensure_env_dir(force)
    \/ \E exit_code \in {0, 1} : create_env(exit_code)

SpecEnv == InitFs /\ [][NextEnv]_vars

\* start() on every manifest and file system, after any calls of ensure_env_dir()
\* and create_env().
NextStart ==
    NextEnv \/ (\E t \in Threads, exit_code \in {0, 1} : StartCreateEnv(t, exit_code))

SpecStart == InitFs /\ [][NextStart]_vars

\* The threads of the engine and the child keep running: a step of the dispatcher,
\* of the reader, of a caller leaving wait() or put(), or of the child answering,
\* that stays possible is taken. Nothing makes the host call again, or the child exit.
Fairness ==
    /\ WF_vars(_run_events)
    /\ WF_vars(_run_listen_remote)
    /\ \A t \in Threads : WF_vars(WaitReturn(t)) /\ WF_vars(StopPut(t))
    /\ WF_vars(\E i \in 1..Len(wire) : ChildRespond(i))

FairSpec == Spec /\ Fairness

\* ------------------------------------------------------------------ claims

\* What the child answers to the call (op, arg) of a host thread.
Expected(op, arg) == IF op = "eval" THEN EvalJS(arg.src) ELSE AwaitJS(arg.id)

WireIds == {i \in 1..Len(wire) : wire[i].line.type \in {"eval", "await"}}

\* C1: for every correlation id, at most one response carrying that event_id
\* resolves a waiter; a later response with the same event_id resolves none.
C1_OneResolutionPerId == \A x \in DOMAIN resolved : resolved[x] <= 1

\* C2: a caller of eval()/await_() gets the payload of the response to its own
\* request: the value, or the error, the child computes for the code or the pointer
\* it passed, whatever the other callers asked and the order of the answers.
C2_OwnResponse ==
    \A t \in Threads :
        /\ (ret[t].op \in {"eval", "await_"} /\ ret[t].outcome = "return") =>
              /\ "result" \in DOMAIN Expected(ret[t].op, ret[t].arg)
              /\ ret[t].value = _final_value(Expected(ret[t].op, ret[t].arg).result)
        /\ (ret[t].outcome = "raise" /\ ret[t].exc.cls = "JavaScriptError") =>
              /\ "error" \in DOMAIN Expected(ret[t].op, ret[t].arg)
              /\ ret[t].exc.message = Expected(ret[t].op, ret[t].arg).error.message

\* Two callers were blocked at once, the child answered the later request first, and
\* its caller has returned while the earlier one still waits.
C2_Witness ==
    \E i, j \in WireIds :
        /\ i < j
        /\ wire[i].by # wire[j].by
        /\ pc[wire[i].by] = "waiting"
        /\ wire[i].line.payload.event_id \in DOMAIN pending
        /\ j \in answered
        /\ i \notin answered
        /\ pc[wire[j].by] = "idle"
        /\ ret[wire[j].by].op \in {"eval", "await_"}
        /\ ret[wire[j].by].outcome \in {"return", "raise"}
        /\ Expected(ret[wire[j].by].op, ret[wire[j].by].arg)
              # Expected(OpOf(msg[wire[i].by]), msg[wire[i].by].arg)

\* C3: the requests are on the wire in the order they were put on the queue (seq is
\* the order of the puts), hence in the order a thread issued them.
C3_WireOrder ==
    \A i, j \in 1..Len(wire) : i < j => wire[i].seq < wire[j].seq

\* Two requests of one thread are on the wire while another thread's request, put
\* between them, is there too.
C3_Witness ==
    \E i, j, l \in 1..Len(wire) :
        /\ i < j /\ j < l
        /\ wire[i].by = wire[l].by
        /\ wire[i].by # wire[j].by

\* C4: what is on the wire is a concatenation of whole request lines.
C4_WholeLines == \A i \in 1..Len(wire) : wire[i].complete

\* The request of t's call was dispatched and waits for its response.
Outstanding(t) == pc[t] = "waiting" /\ Str(msg[t].id) \in DOMAIN pending

\* C5: a call blocked in eval()/await_(), its request dispatched, when stop() has
\* returned does not stay blocked: it eventually returns.
C5_StopReleases ==
    \A t \in Threads : (Outstanding(t) /\ stopped) ~> (pc[t] # "waiting")

\* C6: when the child has exited after it connected, every caller still waiting,
\* its request outstanding or dispatched after the exit, is eventually released.
C6_ChildExitReleases ==
    \A t \in Threads :
        (pc[t] = "waiting" /\ remote_proc = "exited" /\ remote_conn = "open")
            ~> (pc[t] # "waiting")

\* C7: a call begun after stop() returned does not leave its caller blocked once the
\* dispatcher is gone.
C7_NoBlockAfterStop ==
    \A t \in Threads :
        ~(pc[t] = "waiting" /\ msg[t].afterStop /\ events_thread \in {"finished", "crashed"})

\* C8: when the child answers a request with X_error, the waiter is out of the
\* pending table, and the caller raises JavaScriptError with the message and the
\* stack of payload.error, its other fields as extra, and returns no value.
C8_ErrorForwarded ==
    \A t \in Threads :
        /\ (msg[t].cls # "None" /\ msg[t].set /\ msg[t].success = "False") =>
              /\ Str(msg[t].id) \notin DOMAIN pending
              /\ msg[t].error = Expected(OpOf(msg[t]), msg[t].arg).error
        /\ (ret[t].outcome = "raise" /\ ret[t].exc.cls = "JavaScriptError") =>
              LET error == Expected(ret[t].op, ret[t].arg).error
              IN  /\ ret[t].exc.message = error.message
                  /\ ret[t].exc.stack = error.stack
                  /\ DOMAIN ret[t].exc.extra = DOMAIN error \ {"message", "stack"}
                  /\ \A f \in DOMAIN ret[t].exc.extra : ret[t].exc.extra[f] = error[f]
                  /\ ret[t].value = NoVal

\* A caller has raised a JavaScriptError that carries an extra field.
C8_Witness ==
    \E t \in Threads :
        /\ ret[t].outcome = "raise"
        /\ ret[t].exc.cls = "JavaScriptError"
        /\ DOMAIN ret[t].exc.extra # {}

\* C9: no two requests on the wire carry the same event_id.
C9_UniqueIds ==
    \A i, j \in WireIds :
        i # j => wire[i].line.payload.event_id # wire[j].line.payload.event_id

ValidationErrors == {"TypeError", "NodeEdgeValueError"}

\* A step in which a call raises one of await_()'s validation errors.
ValidationRaise ==
    \E t \in Threads :
        /\ ret'[t] # ret[t]
        /\ ret'[t].outcome = "raise"
        /\ ret'[t].exc.cls \in ValidationErrors

\* No Await exists, on the queue, in the table or on the wire, for a pointer that is
\* not awaitable.
OnlyAwaitable ==
    /\ \A t \in Threads :
          msg[t].cls = "Await" =>
              \E p \in AwaitArgs :
                  p.cls = "JavaScriptPointer" /\ p.awaitable /\ p.id = msg[t].arg.id
    /\ \A i \in 1..Len(wire) :
          wire[i].line.type = "await" =>
              \E p \in AwaitArgs :
                  /\ p.cls = "JavaScriptPointer" /\ p.awaitable
                  /\ p.id = wire[i].line.payload.pointer_id

\* C10: await_() on a pointer that is not awaitable, or on a value that is no
\* pointer, raises at once: no Await is made for it, and the raising step leaves the
\* queue, the wire and the pending table as they are.
C10_SyncValidation ==
    /\ []OnlyAwaitable
    /\ [][ValidationRaise => UNCHANGED <<events, wire, pending, msg, pc>>]_vars

\* await_() has refused a pointer that is not awaitable while a request of another
\* caller is in the pending table.
C10_Witness ==
    \E t \in Threads :
        /\ ret[t].outcome = "raise"
        /\ ret[t].exc.cls = "NodeEdgeValueError"
        /\ DOMAIN pending # {}
        /\ wire # <<>>

\* A step in which the dispatcher takes the oldest event off the queue.
Dispatch == Dispatching /\ Len(events') = Len(events) - 1

\* A step in which the reader takes a line that is no UTF-8 JSON text.
MalformedRead ==
    /\ remote_thread = "reading"
    /\ netIn # <<>>
    /\ ~Head(netIn).utf8_json
    /\ netIn' = Tail(netIn)

\* C11: a line that is no UTF-8 JSON makes the reader put a ProtocolError on the
\* queue and go on reading, and the dispatcher takes the ProtocolError and goes on
\* running: neither step ends a thread or touches the pending table, a waiter or
\* the wire.
C11_MalformedLineNonFatal ==
    /\ [][MalformedRead =>
            /\ remote_thread' = "reading"
            /\ Len(events') = Len(events) + 1
            /\ events'[Len(events')].cls = "ProtocolError"
            /\ UNCHANGED <<events_thread, pending, msg, wire>>]_vars
    /\ [][(Dispatch /\ NextEvent.cls = "ProtocolError") =>
            /\ events_thread' = "running"
            /\ UNCHANGED <<remote_thread, pending, msg, wire>>]_vars

\* A ProtocolError was dispatched, and a request put on the queue after it was sent,
\* answered, and has returned to its caller.
C11_Witness ==
    \E k \in 1..Len(printed), i \in WireIds :
        /\ printed[k].cls = "ProtocolError"
        /\ wire[i].seq >= printed[k].seq
        /\ i \in answered
        /\ pc[wire[i].by] = "idle"
        /\ ret[wire[i].by].op \in {"eval", "await_"}
        /\ ret[wire[i].by].outcome = "return"

\* The content of a remote message matches a pending request: it has the three keys,
\* one of the four types, and a waiter is registered under its event_id.
MatchesPending(content) ==
    /\ Matches(content, ResultTypes \cup ErrorTypes)
    /\ content.event_id \in DOMAIN pending

\* C20: a remote message that matches no pending request is dropped: the step that
\* takes it leaves the pending table, every waiter and the wire as they are, and the
\* dispatcher running.
C20_UnmatchedDropped ==
    [][(Dispatch /\ NextEvent.cls = "RemoteMessage" /\ ~MatchesPending(NextEvent.content)) =>
            /\ events_thread' = "running"
            /\ UNCHANGED <<pending, msg, wire>>]_vars

\* C12: whatever the stream and the chunks, the lines the reader has emitted are the
\* fragments of the received bytes split at newline, but the last, and buf holds that
\* last, unterminated fragment.
C12_LinesAreSplit ==
    LET fragments == Split(Received)
    IN  /\ lines = SubSeq(fragments, 1, Len(fragments) - 1)
        /\ Join(buf) = fragments[Len(fragments)]

\* A line was put together from three chunks, the last of which also ended a second
\* line and left an unterminated rest.
C12_Witness ==
    /\ Len(chunks) = 3
    /\ Split(chunks[1]) = <<chunks[1]>>
    /\ Split(chunks[2]) = <<chunks[2]>>
    /\ Len(Split(chunks[3])) = 3
    /\ Len(lines) = 2
    /\ Len(lines[1]) >= 2
    /\ Join(buf) # <<>>

\* C13: once the child is gone, or stop() has closed the connection, the reader in
\* its read loop eventually leaves it and the thread ends.
C13_ReaderTerminates ==
    (remote_thread = "reading" /\ (remote_proc = "exited" \/ remote_conn = "closed"))
        ~> (remote_thread = "exited")

\* The free requests on the wire.
FreeRequests == {i \in 1..Len(wire) : wire[i].line.type = "free"}

\* C14: when the engine has shut down, a free request was sent for every pointer the
\* host received and then dropped its last handle to.
C14_FreeBeforeShutdown ==
    events_thread = "finished" =>
        \A p \in dropped :
            \E i \in FreeRequests : wire[i].line.payload.pointer_id = p

\* C15: when the child has exited before it connected, a caller of eval()/await_()
\* does not wait forever: its call eventually ends.
C15_StartupCrashSurfaced ==
    \A t \in Threads :
        (pc[t] = "waiting" /\ remote_proc = "exited" /\ remote_conn = "None")
            ~> (pc[t] # "waiting")

\* A step changes the queue by taking its oldest event off, or by adding one event
\* at its end when it is not full; the events already there stay, in their order.
QueueStep ==
    \/ events' = events
    \/ events # <<>> /\ events' = Tail(events)
    \/ /\ Len(events) < QueueCap
       /\ Len(events') = Len(events) + 1
       /\ SubSeq(events', 1, Len(events)) = events

\* C16: the events queue never holds more events than its capacity, and no step
\* drops an event from it or reorders it: a put happens only when there is room.
C16_QueueBounded ==
    /\ [](Len(events) <= QueueCap)
    /\ [][QueueStep]_vars

\* The queue is full, the caller of stop() is blocked in its put of Finish, and the
\* dispatcher is running and can take an event off.
C16_Witness ==
    /\ Len(events) = QueueCap
    /\ \E t \in Threads : pc[t] = "stop_put"
    /\ events_thread = "running"

\* C17: every step of a host thread, in start(), eval(), await_(), send_message()
\* or stop(), and every step of the reader leaves the pending table as it is.
C17_PendingFrame == [][(HostStep \/ _run_listen_remote) => pending' = pending]_vars

\* While a request is in the pending table the reader has put its response on the
\* queue and a host thread has gone through stop().
C17_Witness ==
    /\ stopped
    /\ \E i \in 1..Len(events) :
          /\ events[i].cls = "RemoteMessage"
          /\ events[i].content.event_id \in DOMAIN pending

\* C18: two manifests that are equal as mappings have the same signature.
C18_SignatureByContent ==
    \A i, j \in DOMAIN manifests :
        (/\ signatures[i] # NoSig
         /\ signatures[j] # NoSig
         /\ AsMapping(manifests[i]) = AsMapping(manifests[j]))
            => signatures[i] = signatures[j]

\* The candidates under which mkdir works.
Creatable == {i \in DOMAIN Candidates : mkdir_outcome[i] = "ok"}

\* C19: ensure_env_dir() returns the path under the first candidate whose directory
\* can be made; when there is none it raises the engine's exception, and create_env()
\* raises it too, having written no file and run no installer.
C19_FirstCreatable ==
    /\ (env_ret.op = "ensure_env_dir" /\ Creatable # {}) =>
          /\ env_ret.outcome = "return"
          /\ env_ret.value = full_path(CHOOSE i \in Creatable : \A j \in Creatable : i <= j)
    /\ (env_ret.op \in {"ensure_env_dir", "create_env"} /\ Creatable = {}) =>
          /\ env_ret.outcome = "raise"
          /\ env_ret.exc = NodeEdgeException("Could not find/create env dir")
    /\ Creatable = {} => files = {} /\ npm_installs = 0

\* The requests on the queue.
QueuedRequests ==
    {i \in 1..Len(events) : events[i].cls \in {"Eval", "Await", "LocalMessage"}}

\* C21: while the child's connection has not been accepted the dispatcher does not
\* run and nothing is on the wire: every request put so far is on the queue, in the
\* order of the puts; what is on the wire later is in that order too.
C21_NoWriteBeforeAccept ==
    /\ remote_conn = "None" =>
          /\ wire = <<>>
          /\ events_thread \in {"None", "created"}
          /\ {events[i].seq : i \in QueuedRequests} = 0..(nextSeq - 1)
          /\ \A i, j \in QueuedRequests : i < j => events[i].seq < events[j].seq
    /\ \A i, j \in 1..Len(wire) : i <= j => wire[i].seq <= wire[j].seq

\* Two requests of two threads wait on the queue while the reader is in accept().
C21_Witness ==
    /\ remote_conn = "None"
    /\ remote_thread = "accepting"
    /\ Len(events) = 2
    /\ QueuedRequests = {1, 2}
    /\ events[1].by # events[2].by

\* C22: once stop() has returned, the dispatcher thread eventually takes the Finish
\* off the queue and ends.
C22_DispatcherFinishes == stopped ~> (events_thread = "finished")

\* The waiter of t's call is in the pending table.
InTable(t) ==
    /\ Str(msg[t].id) \in DOMAIN pending
    /\ pending[Str(msg[t].id)] = msg[t].id

\* The request of t's call has been written to the socket.
Written(t) == \E i \in WireIds : wire[i].seq = msg[t].seq

\* C23: the pending table holds exactly the waiters whose request was written to the
\* socket and whose event is not set; a waiter whose event is set has success True
\* with its result stored, or False with its error stored.
C23_PendingExact ==
    /\ \A k \in DOMAIN pending :
          \E t \in Threads : msg[t].cls # "None" /\ msg[t].id = pending[k] /\ InTable(t)
    /\ \A t \in Threads :
          msg[t].cls # "None" =>
              /\ InTable(t) <=> (Written(t) /\ ~msg[t].set)
              /\ msg[t].set =>
                    \/ msg[t].success = "True" /\ msg[t].result # NoVal
                    \/ msg[t].success = "False" /\ msg[t].error # NoVal

\* The content of a remote message is a response to a pending request whose payload
\* has not the field its type reads.
WrongShape(content) ==
    /\ MatchesPending(content)
    /\ ~HasKey(content.payload,
               IF content.type \in ResultTypes THEN "result" ELSE "error")

\* C24: the step in which the dispatcher takes a response of the wrong shape to a
\* pending request leaves the dispatcher running, and every waiter that was in the
\* pending table is still there or has been notified.
C24_WrongShapeTolerated ==
    [][(Dispatch /\ NextEvent.cls = "RemoteMessage" /\ WrongShape(NextEvent.content)) =>
            /\ events_thread' = "running"
            /\ \A k \in DOMAIN pending :
                  k \in DOMAIN pending' \/ msg'[Owner(pending[k])].set]_vars

\* A step in which a call of start() raises.
StartRaise ==
    \E t \in Threads :
        /\ ret'[t] # ret[t]
        /\ ret'[t].op = "start"
        /\ ret'[t].outcome = "raise"

\* C25: a start() that raises because create_env() did leaves the engine as it was
\* made: no listener, no connection, no child, no thread, and the queue and the
\* pending table as they were.
C25_FailedStartFrame ==
    [][StartRaise =>
            /\ listen_socket' = "None"
            /\ remote_conn' = "None"
            /\ remote_proc' = "None"
            /\ remote_thread' = "None"
            /\ events_thread' = "None"
            /\ UNCHANGED <<events, pending>>]_vars

\* start() has raised because the installer exited non-zero, after the files of the
\* environment were written, on an engine that is not started.
C25_Witness ==
    \E t \in Threads :
        /\ ret[t].op = "start"
        /\ ret[t].outcome = "raise"
        /\ ret[t].exc = NodeEdgeException("Could not create env")
        /\ files # {}
        /\ listen_socket = "None"

====
